---- MODULE Spec2Model ----
(***************************************************************************)
(* The PyPI source of mirror-clone (src/src/pypi.rs): the retention filter *)
(* truncate_to_recent, the bounded fan-out of Pypi::snapshot, the assembly *)
(* of the snapshot and Pypi::get_object.                                   *)
(*                                                                         *)
(* Strings are sequences of one-character strings, so that starts_with,    *)
(* slicing, format! and the regular expressions act on characters.         *)
(***************************************************************************)
EXTENDS Integers, Sequences, FiniteSets, TLC

\* ------------------------------------------------------------ bounds
\* Longest listing handed to the retention filter.
MaxEntries == 3
\* Largest keep_recent tried.
MaxKeep == 3
\* Longest list of project names Discovery returns.
MaxProjects == 2
\* Largest concurrent_resolve tried.
MaxConc == 2

\* ------------------------------------------------------------ characters
Digits == {"0", "1", "2", "3", "4", "5", "6", "7", "8", "9"}

Letters == {"a", "b", "c", "d", "e", "f", "g", "h", "i", "j", "k", "l", "m", "n",
            "o", "p", "q", "r", "s", "t", "u", "v", "w", "x", "y", "z"}

UpperCase == {"A", "B", "C", "D", "E", "F", "G", "H", "I", "J", "K", "L", "M", "N",
              "O", "P", "Q", "R", "S", "T", "U", "V", "W", "X", "Y", "Z"}

\* \w of the regex crate, over the ASCII characters.
IsWord(c) == c \in Digits \cup Letters \cup UpperCase \cup {"_"}

\* The characters '.'..'_' (0x2E..0x5F).
DotToUnderscore ==
    {".", "/"} \cup Digits \cup {":", ";", "<", "=", ">", "?", "@"} \cup UpperCase
        \cup {"[", "\\", "]", "^", "_"}

\* The class [\w.-_+] of RE_VERSION: \w, the RANGE '.'..'_', and '+'.  The
\* hyphen (0x2D) is not in it.
InVersionClass(c) == IsWord(c) \/ c \in DotToUnderscore \/ c = "+"

DigitVal(c) ==
    CASE c = "0" -> 0 [] c = "1" -> 1 [] c = "2" -> 2 [] c = "3" -> 3
      [] c = "4" -> 4 [] c = "5" -> 5 [] c = "6" -> 6 [] c = "7" -> 7
      [] c = "8" -> 8 [] c = "9" -> 9

None == <<>>

Some(x) == <<x>>

\* str::starts_with
StartsWith(s, p) == Len(p) <= Len(s) /\ SubSeq(s, 1, Len(p)) = p

\* str::ends_with
EndsWith(s, p) == Len(p) <= Len(s) /\ SubSeq(s, Len(s) - Len(p) + 1, Len(s)) = p

\* &s[n..]
SliceFrom(s, n) == SubSeq(s, n + 1, Len(s))

RECURSIVE PrefixLen(_, _)
\* Length of the longest prefix of s whose characters are all in set.
PrefixLen(s, set) ==
    IF s = <<>> \/ Head(s) \notin set THEN 0 ELSE 1 + PrefixLen(Tail(s), set)

RECURSIVE RunLen(_, _)
\* Length of the longest run of version-class characters of s from index i.
RunLen(s, i) ==
    IF i > Len(s) \/ ~InVersionClass(s[i]) THEN 0 ELSE 1 + RunLen(s, i + 1)

RECURSIVE WordLen(_, _)
\* Length of the longest run of \w characters of s from index i.
WordLen(s, i) ==
    IF i > Len(s) \/ ~IsWord(s[i]) THEN 0 ELSE 1 + WordLen(s, i + 1)

\* ------------------------------------------------------------ Version
\* crate::python_version::Version is not among the sources; it is modelled
\* from the specification: parsed from text, totally ordered, with a stable
\* flag that pre-release and development qualifiers clear.
\* A version is [release, qual, num]: qual 0 dev, 1 a, 2 b, 3 rc, 4 final.

RECURSIVE ParseNum(_, _)
\* Decimal value of the digit string s, acc being the value read so far.
ParseNum(s, acc) ==
    IF s = <<>> THEN acc ELSE ParseNum(Tail(s), 10 * acc + DigitVal(Head(s)))

RECURSIVE ParseRelease(_)
\* "1.0.2" to Some(<<1, 0, 2>>); None if a segment is empty.
ParseRelease(s) ==
    LET n == PrefixLen(s, Digits)
    IN  IF n = 0 THEN None
        ELSE IF n = Len(s) THEN Some(<<ParseNum(s, 0)>>)
        ELSE IF s[n + 1] # "." THEN None
        ELSE LET rest == ParseRelease(SliceFrom(s, n + 1))
             IN  IF rest = None THEN None
                 ELSE Some(<<ParseNum(SubSeq(s, 1, n), 0)>> \o rest[1])

\* The qualifier after the release: "" final, or dev/a/b/rc and a number.
ParseQualifier(s) ==
    LET kind == IF s = <<>> THEN 4
                ELSE IF StartsWith(s, <<"d", "e", "v">>) THEN 0
                ELSE IF StartsWith(s, <<"r", "c">>) THEN 3
                ELSE IF StartsWith(s, <<"a">>) THEN 1
                ELSE IF StartsWith(s, <<"b">>) THEN 2
                ELSE 5
        klen == CASE kind = 0 -> 3 [] kind = 3 -> 2 [] kind \in {1, 2} -> 1
                  [] OTHER -> 0
        digits == SliceFrom(s, klen)
    IN  IF kind = 5 \/ PrefixLen(digits, Digits) # Len(digits) THEN None
        ELSE Some([qual |-> kind, num |-> ParseNum(digits, 0)])

\* Version::parse
VersionParse(s) ==
    LET n == PrefixLen(s, Digits \cup {"."})
        rel == ParseRelease(SubSeq(s, 1, n))
        q == ParseQualifier(SliceFrom(s, n))
    IN  IF rel = None \/ q = None THEN None
        ELSE Some([release |-> rel[1], qual |-> q[1].qual, num |-> q[1].num])

\* Version::is_stable
is_stable(v) == v.qual = 4

RECURSIVE ReleaseLess(_, _)
\* Lexicographic order of release tuples.
ReleaseLess(r1, r2) ==
    IF r2 = <<>> THEN FALSE
    ELSE IF r1 = <<>> THEN TRUE
    ELSE IF Head(r1) # Head(r2) THEN Head(r1) < Head(r2)
    ELSE ReleaseLess(Tail(r1), Tail(r2))

\* Ord for Version: v1 < v2.
VersionLess(v1, v2) ==
    IF v1.release # v2.release THEN ReleaseLess(v1.release, v2.release)
    ELSE IF v1.qual # v2.qual THEN v1.qual < v2.qual
    ELSE v1.num < v2.num

\* ------------------------------------------------------------ RE_VERSION
\* The alternatives of the last group; "." is the regex wildcard.
ExtPatterns ==
    { <<".", "t", "a", "r", ".", "g", "z">>,
      <<"t", "a", "r", ".", "b", "z", "2">>,
      <<".", "z", "i", "p">>,
      <<".", "w", "h", "l">>,
      <<".", "e", "x", "e">>,
      <<".", "e", "g", "g">> }

\* s ends with a match of the pattern p.
SuffixMatches(s, p) ==
    /\ Len(p) <= Len(s)
    /\ \A k \in 1..Len(p) : p[k] = "." \/ p[k] = s[Len(s) - Len(p) + k]

\* Capture group 1 of ^\w+-([\w.-_+]+).*(ext)$ on filename, or None.
\* \w+ is the whole leading run of word characters and must be followed by
\* '-'; the group is greedy, so it is the longest run of class characters
\* that still leaves room for the shortest extension matching at the end.
VersionCapture(filename) ==
    LET w == WordLen(filename, 1)
        exts == {p \in ExtPatterns : SuffixMatches(filename, p)}
    IN  IF w = 0 \/ w >= Len(filename) \/ filename[w + 1] # "-" \/ exts = {}
        THEN None
        ELSE LET lmin == CHOOSE l \in {Len(p) : p \in exts} :
                             \A p \in exts : l <= Len(p)
                 run == RunLen(filename, w + 2)
                 room == Len(filename) - (w + 1) - lmin
                 g == IF run < room THEN run ELSE room
             IN  IF g < 1 THEN None ELSE Some(SubSeq(filename, w + 2, w + 1 + g))

version_from_filename(filename) ==
    LET cap == VersionCapture(filename)
    IN  IF cap = None THEN None ELSE VersionParse(cap[1])

\* ------------------------------------------------------------ truncate_to_recent
\* A listing entry is [url, name]; a candidate adds the parsed version.

\* Lines 210-220: every filename parsed, so that collect() yields Some.
AllParsed(entries) ==
    \A i \in 1..Len(entries) : version_from_filename(entries[i].name) # None

Candidates(entries) ==
    [i \in 1..Len(entries) |->
        [url |-> entries[i].url, name |-> entries[i].name,
         version |-> version_from_filename(entries[i].name)[1]]]

RECURSIVE InsertByKey(_, _)
\* Inserts c after every element whose version is not greater (stable sort).
InsertByKey(sorted, c) ==
    IF sorted = <<>> THEN <<c>>
    ELSE IF VersionLess(c.version, Head(sorted).version)
         THEN <<c>> \o sorted
         ELSE <<Head(sorted)>> \o InsertByKey(Tail(sorted), c)

RECURSIVE SortByKey(_)
\* candidates.sort_by_key(|(_, _, version)| version.clone()): ascending, stable.
SortByKey(cands) ==
    IF cands = <<>> THEN <<>>
    ELSE InsertByKey(SortByKey(SubSeq(cands, 1, Len(cands) - 1)), cands[Len(cands)])

Reverse(s) == [i \in 1..Len(s) |-> s[Len(s) + 1 - i]]

\* candidates.into_iter().rev(): newest first.
WalkOrder(sorted) == Reverse(sorted)

AtMostUnstableRoundedUp(keep_recent) == (keep_recent + 1) \div 2

AtMostUnstableWholeBudget(keep_recent) == keep_recent

\* let at_most_unstable = keep_recent / 2;
AtMostUnstable(keep_recent) == keep_recent \div 2

NeverSameAsPrev(prev, version) == FALSE

\* prev.as_ref() == Some(&version)
SameAsPrev(prev, version) == prev = Some(version)

EnoughOffByOne(selected_count, keep_recent) == selected_count > keep_recent

\* if selected_count >= keep_recent { break; }
Enough(selected_count, keep_recent) == selected_count >= keep_recent

RECURSIVE OnlyParsed(_)
OnlyParsed(entries) ==
    IF entries = <<>> THEN <<>>
    ELSE IF version_from_filename(Head(entries).name) = None
         THEN OnlyParsed(Tail(entries))
         ELSE <<Head(entries)>> \o OnlyParsed(Tail(entries))

\* The else branch of line 255: the input is returned as it came.
GiveUp(entries) == entries

\* The locals of the walk before the loop (lines 223-227).
WalkInit ==
    [result |-> <<>>, selected_count |-> 0, selected_unstable_count |-> 0,
     prev |-> None, brk |-> FALSE]

\* One iteration of the loop of lines 228-253 on candidate c.
LoopBody(st, c, keep_recent) ==
    LET entry == [url |-> c.url, name |-> c.name]
    IN  IF SameAsPrev(st.prev, c.version)
        THEN [st EXCEPT !.result = Append(@, entry)]
        ELSE IF Enough(st.selected_count, keep_recent)
        THEN [st EXCEPT !.brk = TRUE]
        ELSE IF is_stable(c.version)
        THEN [st EXCEPT !.result = Append(@, entry),
                        !.prev = Some(c.version),
                        !.selected_count = @ + 1]
        ELSE IF st.selected_unstable_count >= AtMostUnstable(keep_recent)
        THEN st
        ELSE [st EXCEPT !.result = Append(@, entry),
                        !.selected_unstable_count = @ + 1,
                        !.prev = Some(c.version),
                        !.selected_count = @ + 1]

RECURSIVE Walk(_, _, _)
\* The whole loop: the state after the last iteration or the break.
Walk(st, cands, keep_recent) ==
    IF cands = <<>> \/ st.brk THEN st
    ELSE Walk(LoopBody(st, Head(cands), keep_recent), Tail(cands), keep_recent)

truncate_to_recent(entries, keep_recent) ==
    IF AllParsed(entries)
    THEN Walk(WalkInit, WalkOrder(SortByKey(Candidates(entries))), keep_recent).result
    ELSE GiveUp(entries)

\* ------------------------------------------------------------ URLs
\* The characters of the URLs of the model.
Chars == Digits \cup Letters \cup {".", "-", "_", "+", "/", ":", "?", "#", "="}

Slash == <<"/">>

RECURSIVE SplitSlash(_)
\* s.split('/')
SplitSlash(s) ==
    LET n == PrefixLen(s, Chars \ {"/"})
    IN  IF n = Len(s) THEN <<s>>
        ELSE <<SubSeq(s, 1, n)>> \o SplitSlash(SliceFrom(s, n + 1))

RECURSIVE RemoveDotSegments(_, _)
\* The path state of the URL parser: ".." drops the last segment kept, "."
\* is skipped, and either one as the last segment leaves an empty segment.
RemoveDotSegments(segs, out) ==
    IF segs = <<>> THEN out
    ELSE LET h == Head(segs)
             last == Len(segs) = 1
             popped == IF out = <<>> THEN out ELSE SubSeq(out, 1, Len(out) - 1)
             slot == IF last THEN <<(<<>>)>> ELSE <<>>
         IN  IF h = <<".", ".">> THEN RemoveDotSegments(Tail(segs), popped \o slot)
             ELSE IF h = <<".">> THEN RemoveDotSegments(Tail(segs), out \o slot)
             ELSE RemoveDotSegments(Tail(segs), Append(out, h))

RECURSIVE JoinPath(_)
JoinPath(segs) ==
    IF segs = <<>> THEN <<>> ELSE Slash \o Head(segs) \o JoinPath(Tail(segs))

\* Lines 309-310: url::Url::parse(&url), then the serialization up to
\* Position::AfterPath: scheme, host and the normalized path, without the
\* query and the fragment.  The URLs here are scheme://host/path.
CleanUrl(url) ==
    LET cut == SubSeq(url, 1, PrefixLen(url, Chars \ {"?", "#"}))
        scheme == PrefixLen(cut, Chars \ {":"})
        host == PrefixLen(SliceFrom(cut, scheme + 3), Chars \ {"/"})
        origin == SubSeq(cut, 1, scheme + 3 + host)
        path == SliceFrom(cut, scheme + 3 + host)
        segs == IF path = <<>> THEN <<(<<>>)>> ELSE SplitSlash(Tail(path))
    IN  origin \o JoinPath(RemoveDotSegments(segs, <<>>))

\* ------------------------------------------------------------ the registry
HttpM == <<"h", "t", "t", "p", ":", "/", "/", "m">>

\* --simple-base
SimpleBase == HttpM \o <<"/", "s">>

\* --package-base, as configured without and with a trailing '/'.
PackageBases == {HttpM \o <<"/", "p">>, HttpM \o <<"/", "p", "/">>}

Whl == <<".", "w", "h", "l">>

Zip == <<".", "z", "i", "p">>

TarGz == <<".", "t", "a", "r", ".", "g", "z">>

\* Filenames the retention filter is tried on: versions 1 (two artifacts),
\* 2rc1 (two artifacts), 2 and 3a1, and one name that does not parse.
FilterNames ==
    { <<"a", "-", "1">> \o Whl, <<"a", "-", "1">> \o TarGz,
      <<"a", "-", "2", "r", "c", "1">> \o Whl, <<"a", "-", "2", "r", "c", "1">> \o Zip,
      <<"a", "-", "2">> \o Whl, <<"a", "-", "3", "a", "1">> \o Whl,
      <<"a", ".", "t", "x", "t">> }

FilterEntries ==
    {[url |-> HttpM \o <<"/", "p", "/">> \o f, name |-> f] : f \in FilterNames}

\* An anchor of a listing page: href ../../<dir>/<file><tail>, text <file>.
Anchor(dir, file, tail) ==
    [href |-> <<".", ".", "/", ".", ".", "/">> \o dir \o Slash \o file \o tail,
     text |-> file]

Names == {<<"a">>, <<"b">>, <<"c">>}

\* What the registry serves for {simple_base}/{name}/, as the anchors the
\* matcher of line 285 captures, in page order.
Page(name) ==
    CASE name = <<"a">> ->
           << Anchor(<<"p">>, <<"a", "-", "1">> \o Whl, <<"#", "x">>),
              Anchor(<<"p">>, <<"a", "-", "1">> \o TarGz, <<>>),
              Anchor(<<"p">>, <<"a", "-", "2", "r", "c", "1">> \o Whl, <<"?", "x", "=", "1">>),
              Anchor(<<"p">>, <<"a", "-", "2">> \o Whl, <<"#", "x">>) >>
      [] name = <<"b">> ->
           << Anchor(<<"q">>, <<"b", "-", "1">> \o Whl, <<"#", "x">>),
              Anchor(<<"p">>, <<"b", ".", "t", "x", "t">>, <<>>),
              Anchor(<<"p", "p">>, <<"b", "-", "2">> \o Whl, <<>>),
              Anchor(<<"p">>, <<"b", "-", "1">> \o Whl, <<>>) >>
      [] OTHER ->
           << Anchor(<<"p">>, <<"c", "-", "3", "a", "1">> \o Whl, <<>>),
              Anchor(<<"p">>, <<"c", "-", "2">> \o Zip, <<"#", "x">>) >>

\* ------------------------------------------------------------ Package Scanner
\* Lines 305-313: one (cleaned url, filename) per anchor, in page order.
Caps(simple_base, name) ==
    LET page == Page(name)
    IN  [k \in 1..Len(page) |->
            [url |-> CleanUrl(simple_base \o Slash \o name \o Slash \o page[k].href),
             name |-> page[k].text]]

\* Lines 305-318: what func yields when the fetch succeeds.
ScanOk(simple_base, name, keep_recent) ==
    IF keep_recent # None
    THEN truncate_to_recent(Caps(simple_base, name), keep_recent[1])
    ELSE Caps(simple_base, name)

\* The values of self.keep_recent tried: None, Some(1), ...
KeepChoices == {None} \cup {Some(k) : k \in 1..MaxKeep}

\* ScanOk tabulated over the names and the budgets of the model, with the
\* simple base of the model: Scanned[name][keep_recent].
Scanned ==
    [name \in Names |-> [keep_recent \in KeepChoices |->
        ScanOk(SimpleBase, name, keep_recent)]]

PropagateError(res) == res

\* Lines 323-331: an error of func is logged and becomes Ok(vec![]).
Isolate(res) == IF res.ok THEN res ELSE [ok |-> TRUE, caps |-> <<>>]

\* ------------------------------------------------------------ Snapshot Assembler
RECURSIVE Flatten(_)
\* .into_iter().flatten()
Flatten(lists) ==
    IF lists = <<>> THEN <<>> ELSE Head(lists) \o Flatten(Tail(lists))

\* Lines 337-341: the package base with a trailing '/'.
NormalizedBase(package_base) ==
    IF EndsWith(package_base, Slash) THEN package_base ELSE package_base \o Slash

RECURSIVE StripBase(_, _)
\* Lines 346-353: the urls on the base lose it, the others are dropped.
StripBase(caps, base) ==
    IF caps = <<>> THEN <<>>
    ELSE IF StartsWith(Head(caps).url, base)
         THEN <<SliceFrom(Head(caps).url, Len(base))>> \o StripBase(Tail(caps), base)
         ELSE StripBase(Tail(caps), base)

\* crate::utils::snapshot_string_to_path is not among the sources: each
\* string becomes a SnapshotPath, a tuple struct whose field 0 is the string.
snapshot_string_to_path(strings) == [k \in 1..Len(strings) |-> <<strings[k]>>]

\* Lines 337-358.
Assemble(packages, package_base) ==
    snapshot_string_to_path(StripBase(Flatten(packages), NormalizedBase(package_base)))

\* Line 369: format!("{}/{}", self.package_base, snapshot.0)
get_object(package_base, path) == package_base \o Slash \o path[1]

DropEmpty(packages, caps) == IF caps = <<>> THEN packages ELSE Append(packages, caps)

\* try_collect (line 334): each item the stream yields is pushed to the Vec.
Collect(packages, caps) == Append(packages, caps)

RoomOffByOne(in_flight, max) == in_flight <= max

\* buffer_unordered (line 333) pulls the next future from the iterator only
\* while fewer than max are in its queue.
Room(in_flight, max) == in_flight < max

\* ------------------------------------------------------------ state
VARIABLES
    pc,                 \* where snapshot() is: discovery, fanout, done, failed
    self,               \* the Pypi struct: simple_base, package_base, keep_recent
    concurrent_resolve, \* config.concurrent_resolve
    projects,           \* the names Discovery returned
    next,               \* index of the next name the iterator of line 287 yields
    in_progress,        \* indices of the futures in the buffer_unordered queue
    unpolled,           \* those of them that have not been polled yet
    ready,              \* the ready-to-run queue of the FuturesUnordered
    packages,           \* the lists try_collect has gathered so far
    progress,           \* the progress bar: length, position, message
    snapshot,           \* the snapshot returned
    ret,                \* what snapshot() returned: none, Ok, Err
    transfer,           \* the last get_object call: its path and its URL
    started,            \* log: the indices whose scan started, in start order
    completion,         \* log: the indices whose scan completed, in that order
    failed,             \* log: the indices whose fetch returned an error
    t_pc,               \* where truncate_to_recent is: idle, start, walk, done
    t_entries,          \* its argument entries
    t_keep_recent,      \* its argument keep_recent
    t_candidates,       \* the candidates the loop has not visited yet
    walk,               \* the locals of the loop
    t_ret               \* the Vec it returned

snapshot_vars ==
    <<pc, self, concurrent_resolve, projects, next, in_progress, unpolled, ready,
      packages, progress, snapshot, ret, transfer, started, completion, failed>>

truncate_vars == <<t_pc, t_entries, t_keep_recent, t_candidates, walk, t_ret>>

vars == <<snapshot_vars, truncate_vars>>

RECURSIVE SeqsUpTo(_, _)
\* The sequences over set of length at most n.
SeqsUpTo(set, n) ==
    IF n = 0 THEN {<<>>}
    ELSE LET shorter == SeqsUpTo(set, n - 1)
         IN  shorter \cup {Append(q, x) : q \in {r \in shorter : Len(r) = n - 1}, x \in set}

TruncateIdle ==
    /\ t_pc = "idle"
    /\ t_entries = <<>>
    /\ t_keep_recent = 0
    /\ t_candidates = <<>>
    /\ walk = WalkInit
    /\ t_ret = <<>>

SnapshotIdle ==
    /\ pc = "idle"
    /\ self = [simple_base |-> SimpleBase, package_base |-> HttpM \o <<"/", "p">>,
               keep_recent |-> None]
    /\ concurrent_resolve = 1
    /\ projects = <<>>
    /\ next = 1
    /\ in_progress = {}
    /\ unpolled = {}
    /\ ready = <<>>
    /\ packages = <<>>
    /\ progress = [length |-> 0, pos |-> 0, message |-> <<>>]
    /\ snapshot = <<>>
    /\ ret = "none"
    /\ transfer = None
    /\ started = <<>>
    /\ completion = <<>>
    /\ failed = {}

\* ------------------------------------------------------------ snapshot()
Init ==
    /\ pc = "discovery"
    /\ self \in [simple_base : {SimpleBase}, package_base : PackageBases,
                 keep_recent : KeepChoices]
    /\ concurrent_resolve \in 1..MaxConc
    /\ projects = <<>>
    /\ next = 1
    /\ in_progress = {}
    /\ unpolled = {}
    /\ ready = <<>>
    /\ packages = <<>>
    /\ progress = [length |-> 0, pos |-> 0, message |-> <<>>]
    /\ snapshot = <<>>
    /\ ret = "none"
    /\ transfer = None
    /\ started = <<>>
    /\ completion = <<>>
    /\ failed = {}
    /\ TruncateIdle

\* Lines 272-283 with Ok(names) from the index: set_length, then the fan-out.
Discovered(names) ==
    /\ projects' = names
    /\ progress' = [progress EXCEPT !.length = Len(names)]
    /\ pc' = "fanout"
    /\ UNCHANGED <<self, concurrent_resolve, next, in_progress, unpolled, ready,
                   packages, snapshot, ret, transfer, started, completion, failed,
                   truncate_vars>>

\* Lines 276 and 278: the ? returns the error of the index from snapshot().
DiscoveryFailed ==
    /\ pc' = "failed"
    /\ ret' = "Err"
    /\ UNCHANGED <<self, concurrent_resolve, projects, next, in_progress, unpolled,
                   ready, packages, progress, snapshot, transfer, started, completion,
                   failed,
                   truncate_vars>>

\* self.bq_query is read once, at line 272, to pick one of the two index
\* functions; the flag is the choice between the two actions below.
\* pypi_index (lines 84-107): the link texts of the index page, or an error.
\* The names are drawn as the matcher captured them, whatever the debug
\* truncation of line 101 left of the page.
pypi_index ==
    /\ pc = "discovery"
    /\ \/ \E names \in SeqsUpTo(Names, MaxProjects) : Discovered(names)
       \/ DiscoveryFailed

\* bigquery_index (lines 161-192): the project column of the rows, or an error.
bigquery_index ==
    /\ pc = "discovery"
    /\ \/ \E names \in SeqsUpTo(Names, MaxProjects) : Discovered(names)
       \/ DiscoveryFailed

\* buffer_unordered fills its queue: it takes the next future from the
\* iterator (the closure of lines 287-293, which only clones) and pushes it
\* on the FuturesUnordered, whose ready-to-run queue it joins at the back.
\* The future has not been polled yet.
Pull ==
    /\ pc = "fanout"
    /\ next <= Len(projects)
    /\ Room(Cardinality(in_progress), concurrent_resolve)
    /\ in_progress' = in_progress \cup {next}
    /\ unpolled' = unpolled \cup {next}
    /\ ready' = Append(ready, next)
    /\ next' = next + 1
    /\ UNCHANGED <<pc, self, concurrent_resolve, projects, packages, progress, snapshot,
                   ret, transfer, started, completion, failed, truncate_vars>>

\* The reply future i awaits (line 302 or 304) has arrived: its waker puts
\* it at the back of the ready-to-run queue.
Wake(i) ==
    /\ pc = "fanout"
    /\ i \in in_progress \ unpolled
    /\ \A k \in 1..Len(ready) : ready[k] # i
    /\ ready' = Append(ready, i)
    /\ UNCHANGED <<pc, self, concurrent_resolve, projects, next, in_progress, unpolled,
                   packages, progress, snapshot, ret, transfer, started, completion,
                   failed, truncate_vars>>

\* The message on the bar after a poll of future i: its first poll runs
\* progress.set_message(&name) (line 298).
MessageAfterPoll(i) == IF i \in unpolled THEN projects[i] ELSE progress.message

\* FuturesUnordered polls future i, the head of its ready-to-run queue.  The
\* queue of buffer_unordered has been refilled before: Pull comes first
\* while there is room and a name left.
Poll(i) ==
    /\ pc = "fanout"
    /\ ready # <<>>
    /\ i = Head(ready)
    /\ ~(next <= Len(projects) /\ Room(Cardinality(in_progress), concurrent_resolve))
    /\ ready' = Tail(ready)
    /\ unpolled' = unpolled \ {i}
    /\ started' = IF i \in unpolled THEN Append(started, i) ELSE started
    /\ UNCHANGED <<self, concurrent_resolve, projects, next, snapshot, transfer,
                   truncate_vars>>

\* The poll ends at an await whose reply is not there yet (line 302 or 304).
PollPending(i) ==
    /\ Poll(i)
    /\ progress' = [progress EXCEPT !.message = MessageAfterPoll(i)]
    /\ UNCHANGED <<pc, ret, in_progress, packages, completion, failed>>

\* The poll ends future i with res, and the stream yields its item to
\* try_collect.
Yield(i, res) ==
    /\ Poll(i)
    /\ in_progress' = in_progress \ {i}
    /\ completion' = Append(completion, i)
    /\ IF Isolate(res).ok
       THEN /\ packages' = Collect(packages, Isolate(res).caps)
            /\ UNCHANGED <<pc, ret>>
       ELSE \* try_collect stops at the first Err, which line 343 returns.
            /\ pc' = "failed"
            /\ ret' = "Err"
            /\ UNCHANGED packages

\* Future i ends with the listing fetched (lines 299-320).
FetchOk(i) ==
    /\ Yield(i, [ok |-> TRUE, caps |-> Scanned[projects[i]][self.keep_recent]])
    /\ progress' = [progress EXCEPT !.message = MessageAfterPoll(i), !.pos = @ + 1]
    /\ UNCHANGED failed

\* Future i ends at one of the ? of lines 302 and 304.
FetchErr(i) ==
    /\ Yield(i, [ok |-> FALSE])
    /\ progress' = [progress EXCEPT !.message = MessageAfterPoll(i)]
    /\ failed' = failed \cup {i}

\* Lines 337-358, once the stream has ended.  finish_with_message (line 356)
\* sets the message and moves the position of the bar to its length.
Finish ==
    /\ pc = "fanout"
    /\ next > Len(projects)
    /\ in_progress = {}
    /\ snapshot' = Assemble(packages, self.package_base)
    /\ progress' = [progress EXCEPT !.message = <<"d", "o", "n", "e">>,
                                    !.pos = progress.length]
    /\ ret' = "Ok"
    /\ pc' = "done"
    /\ UNCHANGED <<self, concurrent_resolve, projects, next, in_progress, unpolled,
                   ready, packages, transfer, started, completion, failed,
                   truncate_vars>>

\* Pypi::get_object on an entry of the snapshot.
GetObject ==
    /\ pc = "done"
    /\ \E k \in 1..Len(snapshot) :
          transfer' = Some([path |-> snapshot[k],
                            url |-> get_object(self.package_base, snapshot[k])])
    /\ UNCHANGED <<pc, self, concurrent_resolve, projects, next, in_progress, unpolled,
                   ready, packages, progress, snapshot, ret, started, completion,
                   failed, truncate_vars>>

Next ==
    \/ pypi_index
    \/ bigquery_index
    \/ Pull
    \/ \E i \in in_progress : Wake(i)
    \/ \E i \in in_progress : PollPending(i)
    \/ \E i \in in_progress : FetchOk(i)
    \/ \E i \in in_progress : FetchErr(i)
    \/ Finish
    \/ GetObject

Spec == Init /\ [][Next]_vars

\* ------------------------------------------------------------ truncate_to_recent, stepwise
FilterInit ==
    /\ SnapshotIdle
    /\ t_pc = "start"
    /\ t_entries \in SeqsUpTo(FilterEntries, MaxEntries)
    /\ t_keep_recent \in 0..MaxKeep
    /\ t_candidates = <<>>
    /\ walk = WalkInit
    /\ t_ret = <<>>

\* Lines 221-227: every name parsed; sort, and start the walk.
SortCandidates ==
    /\ t_pc = "start"
    /\ AllParsed(t_entries)
    /\ t_candidates' = WalkOrder(SortByKey(Candidates(t_entries)))
    /\ walk' = WalkInit
    /\ t_pc' = "walk"
    /\ UNCHANGED <<t_entries, t_keep_recent, t_ret, snapshot_vars>>

\* Lines 255-258: a name did not parse.
GiveUpKeepRecent ==
    /\ t_pc = "start"
    /\ ~AllParsed(t_entries)
    /\ t_ret' = GiveUp(t_entries)
    /\ t_pc' = "done"
    /\ UNCHANGED <<t_entries, t_keep_recent, t_candidates, walk, snapshot_vars>>

\* One iteration of the loop.
Iterate ==
    /\ t_pc = "walk"
    /\ t_candidates # <<>>
    /\ ~walk.brk
    /\ walk' = LoopBody(walk, Head(t_candidates), t_keep_recent)
    /\ t_candidates' = Tail(t_candidates)
    /\ UNCHANGED <<t_pc, t_entries, t_keep_recent, t_ret, snapshot_vars>>

\* Line 254: the loop is over, by exhaustion or by break.
ReturnResult ==
    /\ t_pc = "walk"
    /\ t_candidates = <<>> \/ walk.brk
    /\ t_ret' = walk.result
    /\ t_pc' = "done"
    /\ UNCHANGED <<t_entries, t_keep_recent, t_candidates, walk, snapshot_vars>>

FilterNext ==
    \/ SortCandidates
    \/ GiveUpKeepRecent
    \/ Iterate
    \/ ReturnResult

FilterSpec == FilterInit /\ [][FilterNext]_vars

\* ------------------------------------------------------------ properties of truncate_to_recent
Version(entry) == version_from_filename(entry.name)[1]

\* How many times x occurs in seq.
Count(seq, x) == Cardinality({k \in 1..Len(seq) : seq[k] = x})

VersionsOf(seq) == {Version(seq[k]) : k \in 1..Len(seq)}

UnstableVersionsOf(seq) == {v \in VersionsOf(seq) : ~is_stable(v)}

StableVersionsOf(seq) == {v \in VersionsOf(seq) : is_stable(v)}

\* Every input artifact of version v is in the output, as often as in the input.
WholeVersion(v) ==
    \A i \in 1..Len(t_entries) :
        Version(t_entries[i]) = v => Count(t_ret, t_entries[i]) = Count(t_entries, t_entries[i])

Returned == t_pc = "done" /\ AllParsed(t_entries)

\* C1: when every filename parses, the returned entries hold at most
\* keep_recent distinct versions.
C1_AtMostKeepRecentVersions ==
    Returned => Cardinality(VersionsOf(t_ret)) <= t_keep_recent

\* C1 happens: the input has more versions than the budget, the budget is
\* used up, and more artifacts than keep_recent are returned.
C1_Witness ==
    /\ Returned
    /\ t_keep_recent >= 1
    /\ Cardinality(VersionsOf(t_entries)) > t_keep_recent
    /\ Cardinality(VersionsOf(t_ret)) = t_keep_recent
    /\ Len(t_ret) > t_keep_recent

\* C2: at every step of the walk and in what is returned, the unstable
\* versions accepted number at most floor(keep_recent / 2).
C2_UnstableAtMostHalf ==
    /\ walk.selected_unstable_count <= t_keep_recent \div 2
    /\ t_pc \in {"walk", "done"} /\ AllParsed(t_entries) =>
          /\ Cardinality(UnstableVersionsOf(walk.result)) <= t_keep_recent \div 2
          /\ Cardinality(UnstableVersionsOf(t_ret)) <= t_keep_recent \div 2

\* C2 happens: the cap is positive and reached, and an unstable version of
\* the input was passed over while the walk went on to accept an older one.
C2_Witness ==
    /\ Returned
    /\ t_keep_recent \div 2 >= 1
    /\ Cardinality(UnstableVersionsOf(t_ret)) = t_keep_recent \div 2
    /\ \E v \in UnstableVersionsOf(t_entries) :
          /\ v \notin VersionsOf(t_ret)
          /\ \E u \in VersionsOf(t_ret) : VersionLess(u, v)

\* C3: a version with one artifact in the output has all its input
\* artifacts in the output, each as often as in the input.
C3_WholeVersions ==
    Returned => \A v \in VersionsOf(t_ret) : WholeVersion(v)

\* C3 happens: an unstable version used the last of the budget and two
\* different artifacts of it are returned.
C3_Witness ==
    /\ Returned
    /\ walk.selected_count = t_keep_recent
    /\ walk.prev # None
    /\ ~is_stable(walk.prev[1])
    /\ \E j, k \in 1..Len(t_ret) :
          /\ t_ret[j] # t_ret[k]
          /\ Version(t_ret[j]) = walk.prev[1]
          /\ Version(t_ret[k]) = walk.prev[1]

\* C4: when a filename does not parse, the output is the input list itself.
C4_UnparsedIsIdentity ==
    t_pc = "done" /\ ~AllParsed(t_entries) => t_ret = t_entries

\* C4 happens: one name does not parse, the others do and hold more versions
\* than the budget.
C4_Witness ==
    /\ t_pc = "done"
    /\ ~AllParsed(t_entries)
    /\ Cardinality(VersionsOf(OnlyParsed(t_entries))) > t_keep_recent
    /\ Len(t_ret) >= 2

NewestStable(seq) ==
    CHOOSE v \in StableVersionsOf(seq) :
        \A u \in StableVersionsOf(seq) : ~VersionLess(v, u)

\* C10: with a budget of at least 1 and a stable version in the input, every
\* artifact of the newest stable version is in the output.
C10_NewestStableKept ==
    Returned /\ t_keep_recent >= 1 /\ StableVersionsOf(t_entries) # {} =>
        WholeVersion(NewestStable(t_entries))

\* C10 happens: an unstable version newer than the newest stable one was
\* accepted first, and the stable one was accepted after it.
C10_Witness ==
    /\ Returned
    /\ t_keep_recent >= 1
    /\ StableVersionsOf(t_entries) # {}
    /\ \E v \in UnstableVersionsOf(t_ret) : VersionLess(NewestStable(t_entries), v)
    /\ NewestStable(t_entries) \in VersionsOf(t_ret)

\* ------------------------------------------------------------ properties of snapshot()
Range(seq) == {seq[k] : k \in 1..Len(seq)}

NoDuplicates(seq) == \A j, k \in 1..Len(seq) : seq[j] = seq[k] => j = k

\* What the i-th discovered name is due to contribute: nothing if its fetch
\* failed, else its listing, filtered when keep_recent is set.
Contribution(i) ==
    IF i \in failed THEN <<>> ELSE Scanned[projects[i]][self.keep_recent]

\* The scans started (polled for the first time) and not yet completed.
InFlight == Range(started) \ Range(completion)

\* The cleaned artifact URLs seen while scanning.
ObservedUrls ==
    UNION {{Caps(self.simple_base, projects[i])[k].url :
               k \in 1..Len(Caps(self.simple_base, projects[i]))} :
           i \in Range(completion) \ failed}

\* C5, as claimed: with concurrent_resolve >= 2 the i-th list collected is
\* the result of the i-th discovered name (looked at where the names are
\* distinct and no fetch failed).
C5_SubmissionOrder ==
    pc = "done" /\ concurrent_resolve >= 2 /\ NoDuplicates(projects) /\ failed = {} =>
        \A i \in 1..Len(projects) : packages[i] = Contribution(i)

\* C5, amended: the lists are collected in completion order: the j-th list
\* collected is the result of the j-th scan to complete, and once the
\* fan-out is over every discovered name has contributed exactly one list.
C5_CompletionOrder ==
    /\ Len(packages) = Len(completion)
    /\ \A j \in 1..Len(completion) : packages[j] = Contribution(completion[j])
    /\ NoDuplicates(completion)
    /\ pc = "done" => Range(completion) = 1..Len(projects)

\* C5 happens: two scans ran together and the later-submitted one completed
\* first, so that the first list collected is not the first name's.
C5_Witness ==
    /\ pc = "done"
    /\ concurrent_resolve >= 2
    /\ Len(completion) >= 2
    /\ completion[1] > completion[2]
    /\ packages[1] # Contribution(1)

\* C6: a failed listing fetch does not fail the run or abort the other
\* scans: snapshot() fails only before any scan started, no scan in flight
\* is dropped, and at the end it returned Ok with nothing from the failed
\* names and from each other name exactly its own entries.
C6_FailureIsolated ==
    /\ pc = "failed" => started = <<>>
    /\ pc = "fanout" => in_progress = InFlight \cup unpolled
    /\ pc = "done" =>
          /\ ret = "Ok"
          /\ \A i \in 1..Len(projects) :
                \E j \in 1..Len(packages) :
                    /\ completion[j] = i
                    /\ packages[j] = IF i \in failed THEN <<>>
                                     ELSE Scanned[projects[i]][self.keep_recent]
          /\ snapshot = Assemble([j \in 1..Len(completion) |->
                                     Contribution(completion[j])], self.package_base)

\* C6 happens: a fetch failed, a scan completed after that failure, and the
\* snapshot holds entries of the names that did not fail.
C6_Witness ==
    /\ pc = "done"
    /\ ret = "Ok"
    /\ \E j, k \in 1..Len(completion) :
          /\ j < k
          /\ completion[j] \in failed
          /\ completion[k] \notin failed
          /\ packages[k] # <<>>
    /\ snapshot # <<>>

\* C7, as claimed: get_object on an entry of the snapshot, with the package
\* base as configured, returns one of the cleaned URLs seen while scanning.
C7_ResolvesToObservedUrl ==
    transfer # None => transfer[1].url \in ObservedUrls

\* Every discovered name has been scanned and its list collected; line 337
\* comes next.
FanOutOver == pc = "fanout" /\ next > Len(projects) /\ in_progress = {}

\* C8, as claimed: each completed scan has made one progress increment, so
\* that when the fan-out is over the position of the bar equals the number
\* of discovered names, the length set on the bar.
C8_ProgressReachesLength ==
    FanOutOver => progress.length = Len(projects) /\ progress.pos = Len(projects)

\* C9: at most concurrent_resolve scans are started and not completed, no
\* name is scanned twice and at the end each was scanned once, and a scan is
\* started only after Discovery returned its names.
C9_BoundedFanOut ==
    /\ Cardinality(InFlight) <= concurrent_resolve
    /\ Cardinality(InFlight \cup unpolled) <= concurrent_resolve
    /\ NoDuplicates(started)
    /\ Range(started) \subseteq 1..Len(projects)
    /\ pc = "done" => Range(started) = 1..Len(projects)
    /\ started # <<>> => pc \in {"fanout", "done"}

\* C9 happens: the queue is full and a discovered name is still waiting.
C9_Witness ==
    /\ pc = "fanout"
    /\ Cardinality(InFlight) = concurrent_resolve
    /\ next <= Len(projects)

====
